---- MODULE Spec2Model ----
(***************************************************************************)
(* A model of organizer/file_mover.py: the configuration cache             *)
(* (load_config, clear_config_cache), FileMover.categorize_file,           *)
(* FileMover.scan_directory, FileMover.move_file, FileMover.organize and   *)
(* the standalone move_file with its retry loop.                           *)
(*                                                                         *)
(* Strings the program inspects (file names, extensions, category names)  *)
(* are sequences of one-character strings, so that Path.suffix and        *)
(* str.lower are computed and not assumed.  A path is <<dir, name>>: dir  *)
(* names a directory directly under the source root (<<>> is the root     *)
(* itself) and name is the final path component.  The configuration file  *)
(* .fileorganizer.json lives outside the source root.                     *)
(***************************************************************************)
EXTENDS Integers, Sequences, FiniteSets, TLC

VARIABLES
    fs,         \* [Paths -> Entries]: what is at each path of the source tree
    dirs,       \* the directories that exist (Root and those directly under it)
    cfgFile,    \* the content of .fileorganizer.json as the search finds it
    cache,      \* file_mover._config_cache
    pinned,     \* history of load_config since the last clear_config_cache (or the
                \* start): the rule set last returned, what the first call returned
    lastLoad,   \* history: the last load_config call
    run,        \* FileMover.organize in progress: its arguments, file list, position
    runLog,     \* the log lines of the current (or last) organize run, one per file
    last        \* history: the last direct call of move_file or categorize_file,
                \* its inputs and its outcome

vars == <<fs, dirs, cfgFile, cache, pinned, lastLoad, run, runLog, last>>

----------------------------------------------------------------------------
(* Bounds of the model *)

MaxFiles == 2          \* regular files in the initial source tree
MaxLocks == 2          \* lock errors the environment raises before it relents
MaxRetriesArg == 3     \* largest max_retries argument tried

----------------------------------------------------------------------------
(* Strings *)

LowerTable ==
    ("A" :> "a") @@ ("B" :> "b") @@ ("C" :> "c") @@ ("D" :> "d") @@ ("E" :> "e") @@
    ("F" :> "f") @@ ("G" :> "g") @@ ("H" :> "h") @@ ("I" :> "i") @@ ("J" :> "j") @@
    ("K" :> "k") @@ ("L" :> "l") @@ ("M" :> "m") @@ ("N" :> "n") @@ ("O" :> "o") @@
    ("P" :> "p") @@ ("Q" :> "q") @@ ("R" :> "r") @@ ("S" :> "s") @@ ("T" :> "t") @@
    ("U" :> "u") @@ ("V" :> "v") @@ ("W" :> "w") @@ ("X" :> "x") @@ ("Y" :> "y") @@
    ("Z" :> "z")

\* str.lower()
Lower(s) ==
    [i \in 1..Len(s) |-> IF s[i] \in DOMAIN LowerTable THEN LowerTable[s[i]] ELSE s[i]]

\* str.rfind("."), 1-based; 0 when there is no dot
LastDot(s) ==
    IF \E i \in 1..Len(s) : s[i] = "."
    THEN CHOOSE i \in 1..Len(s) : s[i] = "." /\ \A j \in (i+1)..Len(s) : s[j] # "."
    ELSE 0

\* pathlib's PurePath.suffix of a final component: the text from the last dot,
\* unless that dot is the first or the last character
Suffix(name) ==
    LET i == LastDot(name)
    IN  IF 1 < i /\ i < Len(name) THEN SubSeq(name, i, Len(name)) ELSE <<>>

----------------------------------------------------------------------------
(* The source tree *)

Root      == <<>>
Sub       == <<"s","u","b">>
Documents == <<"d","o","c","u","m","e","n","t","s">>
Images    == <<"i","m","a","g","e","s">>
Videos    == <<"v","i","d","e","o","s">>
Music     == <<"m","u","s","i","c">>
Archives  == <<"a","r","c","h","i","v","e","s">>
Code      == <<"c","o","d","e">>
Others    == <<"o","t","h","e","r","s">>

ReportPdf == <<"r",".","p","d","f">>
PhotoJPG  == <<"p",".","J","P","G">>

\* <root>/../out: the directory a destination category "../out" names; it is
\* beside the source root, not under it
Outside   == <<".",".","/","o","u","t">>

\* The directories under the source root, and the ones a destination can name
TreeDirs  == {Root, Sub, Documents, Images}
DirNames  == TreeDirs \cup {Outside}
FileNames == {ReportPdf, PhotoJPG}
TreePaths == TreeDirs \X FileNames
Paths     == DirNames \X FileNames

\* What is at a path: nothing, a directory, or a regular file.  A file's content is
\* named after the path the file had in the initial tree, so that files created at
\* different paths differ in content and a content can be followed through moves.
NoData    == <<Root, <<>>>>
Absent    == [kind |-> "absent", data |-> NoData]
DirEntry  == [kind |-> "dir", data |-> NoData]
FileOf(p) == [kind |-> "file", data |-> p]

\* Path.exists(), Path.is_file(), Path.is_dir() of a path of the tree
Exists(f, p) == f[p].kind # "absent"
IsFile(f, p) == f[p].kind = "file"
IsDir(f, p)  == f[p].kind = "dir"

----------------------------------------------------------------------------
(* Configuration: .fileorganizer.json and the process-wide cache *)

\* Optional values: Python's None and a present value
None    == [some |-> FALSE, v |-> <<>>]
Some(x) == [some |-> TRUE, v |-> x]

\* JSON values as far as load_config tells them apart: an element of a list is a
\* string or not; a category's value is a list or not
JStr(s)    == [str |-> TRUE, s |-> s]
JNum       == [str |-> FALSE, s |-> <<>>]
JList(es)  == [list |-> TRUE, elems |-> es]
JScalar    == [list |-> FALSE, elems |-> <<>>]
Item(k, v) == [key |-> k, value |-> v]

ExtPdf      == <<".","p","d","f">>
ExtJPGUpper == <<".","J","P","G">>

CfgAbsent    == [kind |-> "absent", items |-> <<>>]
CfgMalformed == [kind |-> "malformed", items |-> <<>>]
\* a file that cannot be opened, and one whose bytes are not UTF-8
CfgUnreadable  == [kind |-> "unreadable", items |-> <<>>]
CfgUndecodable == [kind |-> "undecodable", items |-> <<>>]
CfgNonObject == [kind |-> "nonobject", items |-> <<>>]
\* {"Work": [".pdf"]}
CfgWork  == [kind |-> "object",
             items |-> << Item(<<"W","o","r","k">>, JList(<<JStr(ExtPdf)>>)) >>]
\* {"Bad": "x", "Empty": [5], "Sub": [".JPG", 7], "IMAGES": [".pdf"]}
CfgMixed == [kind |-> "object",
             items |-> << Item(<<"B","a","d">>, JScalar),
                          Item(<<"E","m","p","t","y">>, JList(<<JNum>>)),
                          Item(<<"S","u","b">>, JList(<<JStr(ExtJPGUpper), JNum>>)),
                          Item(<<"I","M","A","G","E","S">>, JList(<<JStr(ExtPdf)>>)) >>]
\* {"Bad": "x", "Empty": [5]}
CfgNoValid == [kind |-> "object",
               items |-> << Item(<<"B","a","d">>, JScalar),
                            Item(<<"E","m","p","t","y">>, JList(<<JNum>>)) >>]

\* {"First": [".jpg", ".xyz"], "Second": [".jpg", ".pdf"]} and the same in the
\* other order
CfgOrder   == [kind |-> "object",
               items |-> << Item(<<"F","i","r","s","t">>,
                                 JList(<<JStr(<<".","j","p","g">>), JStr(<<".","x","y","z">>)>>)),
                            Item(<<"S","e","c","o","n","d">>,
                                 JList(<<JStr(<<".","j","p","g">>), JStr(ExtPdf)>>)) >>]
CfgReverse == [kind |-> "object", items |-> <<CfgOrder.items[2], CfgOrder.items[1]>>]
\* {"Pics": [".JPG", ".Xyz"]}: extensions authored with capital letters
CfgUpperRule == [kind |-> "object",
                 items |-> << Item(<<"P","i","c","s">>,
                                   JList(<<JStr(ExtJPGUpper), JStr(<<".","X","y","z">>)>>)) >>]
\* {"": [".pdf"]}: a category whose name is the empty string
CfgEmptyName == [kind |-> "object", items |-> << Item(<<>>, JList(<<JStr(ExtPdf)>>)) >>]

\* {"../out": [".pdf"]}
CfgEscape == [kind |-> "object", items |-> << Item(Outside, JList(<<JStr(ExtPdf)>>)) >>]

\* {"Keep": [".pdf", 7, ".JPG"], "Nothing": []}
CfgHoles == [kind |-> "object",
             items |-> << Item(<<"K","e","e","p">>,
                               JList(<<JStr(ExtPdf), JNum, JStr(ExtJPGUpper)>>)),
                          Item(<<"N","o","t","h","i","n","g">>, JList(<<>>)) >>]

\* The files read as a JSON object are dicts: the keys of their items are distinct
CfgFiles == {CfgAbsent, CfgMalformed, CfgNonObject, CfgWork, CfgMixed, CfgNoValid,
             CfgHoles, CfgUnreadable, CfgUndecodable}

\* valid_extensions = [ext for ext in extensions if isinstance(ext, str)]
ValidExtensionsKeepsAll(value) == [i \in 1..Len(value.elems) |-> value.elems[i].s]

ValidExtensions(value) ==
    LET strs == SelectSeq(value.elems, LAMBDA e : e.str)
    IN  [i \in 1..Len(strs) |-> strs[i].s]

\* the validation loop of load_config: the categories whose value is a list with at
\* least one string, in the file's order, each with its string entries
ValidateConfig(items) ==
    LET kept == SelectSeq(items,
                    LAMBDA it : it.value.list /\ Len(ValidExtensions(it.value)) > 0)
    IN  [i \in 1..Len(kept) |->
            [category |-> kept[i].key, extensions |-> ValidExtensions(kept[i].value)]]

\* What open() and json.load() raise inside load_config's try block
LoadError(file) ==
    CASE file.kind = "unreadable"  -> "PermissionError"
      [] file.kind = "undecodable" -> "UnicodeDecodeError"
      [] file.kind = "malformed"   -> "JSONDecodeError"
      [] OTHER                     -> "none"

\* except (json.JSONDecodeError, UnicodeDecodeError) ... except Exception ...:
\* the errors load_config turns into a None result
HandledOnlyDecodeErrors(exc) == exc \in {"JSONDecodeError", "UnicodeDecodeError"}

HandledByLoadConfig(exc) ==
    exc \in {"JSONDecodeError", "UnicodeDecodeError", "PermissionError"}

\* the exception that leaves load_config on a cache miss, "none" if it returns
LoadRaised(file) ==
    IF LoadError(file) # "none" /\ ~HandledByLoadConfig(LoadError(file))
    THEN LoadError(file) ELSE "none"

\* load_config() on a cache miss: search, read, parse, validate
ResolveConfig(file) ==
    IF file.kind # "object" THEN None
    ELSE LET v == ValidateConfig(file.items)
         IN  IF Len(v) = 0 THEN None ELSE Some(v)

\* load_config(): [ret: the value returned, cache: _config_cache afterwards,
\* read: whether the filesystem was searched, raised: the exception that left
\* the call, "none" when it returned]
LoadConfigAlwaysReads(c, file) ==
    LET r == ResolveConfig(file)
    IN  [ret |-> r, cache |-> r, read |-> TRUE, raised |-> LoadRaised(file)]

LoadConfig(c, file) ==
    IF c.some
    THEN [ret |-> c, cache |-> c, read |-> FALSE, raised |-> "none"]
    ELSE LET r == ResolveConfig(file)
         IN  [ret |-> r, cache |-> r, read |-> TRUE, raised |-> LoadRaised(file)]

----------------------------------------------------------------------------
(* FileMover.categorize_file *)

Ext(a, b, c)    == <<".", a, b, c>>
Ext4(a, b, c, d) == <<".", a, b, c, d>>

ImageExts    == {Ext("j","p","g"), Ext4("j","p","e","g"), Ext("p","n","g"), Ext("g","i","f"),
                 Ext("b","m","p"), Ext4("t","i","f","f"), Ext4("w","e","b","p")}
DocumentExts == {Ext("p","d","f"), Ext("d","o","c"), Ext4("d","o","c","x"), Ext("t","x","t"),
                 Ext("r","t","f"), Ext("o","d","t"), Ext("x","l","s"), Ext4("x","l","s","x"),
                 Ext("p","p","t"), Ext4("p","p","t","x")}
VideoExts    == {Ext("m","p","4"), Ext("m","o","v"), Ext("a","v","i"), Ext("m","k","v"),
                 Ext("w","m","v"), Ext("f","l","v"), Ext4("w","e","b","m")}
MusicExts    == {Ext("m","p","3"), Ext("w","a","v"), Ext4("f","l","a","c"), Ext("a","a","c")}
ArchiveExts  == {Ext("z","i","p"), Ext("r","a","r"), Ext("t","a","r"), <<".","g","z">>,
                 <<".","7","z">>}
CodeExts     == {<<".","p","y">>, Ext4("j","a","v","a"), Ext("c","p","p"), <<".","j","s">>,
                 <<".","t","s">>, Ext4("h","t","m","l"), Ext("c","s","s")}

\* extension_to_category.get(suffix, "others")
BuiltinCategory(suffix) ==
    CASE suffix \in ImageExts    -> Images
      [] suffix \in DocumentExts -> Documents
      [] suffix \in VideoExts    -> Videos
      [] suffix \in MusicExts    -> Music
      [] suffix \in ArchiveExts  -> Archives
      [] suffix \in CodeExts     -> Code
      [] OTHER                   -> Others

InList(x, list) == \E i \in 1..Len(list) : list[i] = x

\* categorize_file given what load_config() returned
CategorizeWithLastMatch(name, config) ==
    LET suffix == Lower(Suffix(name))
        rules  == config.v
        hits   == {i \in 1..Len(rules) : InList(suffix, rules[i].extensions)}
    IN  IF config.some /\ Len(rules) > 0 /\ hits # {}
        THEN Lower(rules[CHOOSE i \in hits : \A j \in hits : i >= j].category)
        ELSE BuiltinCategory(suffix)

CategorizeWith(name, config) ==
    LET suffix == Lower(Suffix(name))
        rules  == config.v
        hits   == {i \in 1..Len(rules) : InList(suffix, rules[i].extensions)}
    IN  IF config.some /\ Len(rules) > 0 /\ hits # {}
        THEN Lower(rules[CHOOSE i \in hits : \A j \in hits : i <= j].category)
        ELSE BuiltinCategory(suffix)

\* File names given to categorize_file and the configurations it meets
CatNames == {ReportPdf, PhotoJPG,
             <<"p",".","j","p","g">>, <<"r",".","P","d","F">>,
             <<"a",".","X","y","z">>, <<"a",".","x","y","z">>,
             <<"R","E","A","D","M","E">>, <<".","p","d","f">>,
             <<"a",".","t","a","r",".","g","z">>, <<"a",".">>}

CatCfgs  == {CfgAbsent, CfgNoValid, CfgWork, CfgMixed, CfgOrder, CfgReverse,
             CfgUpperRule, CfgEmptyName, CfgMalformed, CfgUnreadable}

----------------------------------------------------------------------------
(* The environment of a move: what shutil.move and unlink/rmtree meet *)

\* A script says how the underlying move answers successive attempts: its first
\* `locks` attempts raise PermissionError, every later one ends as `then`
\* ("ok", "other": an error that is not a lock error, or "lock": locked for good).
Scripts ==
    {[locks |-> k, then |-> t] : k \in 0..MaxLocks, t \in {"ok", "other"}}
        \cup {[locks |-> 0, then |-> "lock"]}

NoFault == [locks |-> 0, then |-> "ok"]

Outcome(script, n) == IF n <= script.locks THEN "lock" ELSE script.then

\* shutil.move(src, dst) where dst does not exist: the rename, or the exception
\* raised (a missing source is FileNotFoundError whatever the script says)
ShutilMoveKeepsSource(f, src, dst, outcome) ==
    IF ~Exists(f, src) THEN [fs |-> f, exc |-> "FileNotFoundError"]
    ELSE IF outcome = "lock" THEN [fs |-> f, exc |-> "PermissionError"]
    ELSE IF outcome = "other" THEN [fs |-> f, exc |-> "OSError"]
    ELSE [fs |-> [f EXCEPT ![dst] = f[src]], exc |-> "ok"]

ShutilMove(f, src, dst, outcome) ==
    IF ~Exists(f, src) THEN [fs |-> f, exc |-> "FileNotFoundError"]
    ELSE IF outcome = "lock" THEN [fs |-> f, exc |-> "PermissionError"]
    ELSE IF outcome = "other" THEN [fs |-> f, exc |-> "OSError"]
    ELSE IF src = dst THEN [fs |-> f, exc |-> "ok"]
    ELSE [fs |-> [f EXCEPT ![dst] = f[src], ![src] = Absent], exc |-> "ok"]

\* destination_path.unlink() / shutil.rmtree(destination_path)
RemoveEntry(f, p) == [f EXCEPT ![p] = Absent]

\* Path.mkdir(parents=True, exist_ok=True) of a directory under the root
Mkdir(d, dir) == d \cup {Root, dir}

----------------------------------------------------------------------------
(* FileMover.move_file *)

BackoffTenths == 5     \* time.sleep(0.5), in tenths of a second

AttemptEv == [ev |-> "attempt", dur |-> 0]              \* one shutil.move call
SleepEv   == [ev |-> "sleep", dur |-> BackoffTenths]    \* one time.sleep call

CountEv(trace, e) == Cardinality({i \in 1..Len(trace) : trace[i].ev = e})

\* destination_root / category / source_path.name: the category folder directly
\* under the root and the final component of the source path, nothing between
DestinationInRoot(src, cat) == <<Root, src[2]>>

Destination(src, cat) == <<cat, src[2]>>

\* `if not source_path.exists() or not source_path.is_file()`: nothing to move
SourceMissingOnlyAbsent(f, src) == ~Exists(f, src)

SourceMissing(f, src) == ~Exists(f, src) \/ ~IsFile(f, src)

\* `if destination_path.exists() and not overwrite`: the conflict that is refused
ConflictOnlyForFiles(f, dst, overwrite) == IsFile(f, dst) /\ ~overwrite
ConflictNever(f, dst, overwrite) == FALSE

Conflict(f, dst, overwrite) == Exists(f, dst) /\ ~overwrite

\* The result of a move: the tree afterwards, how the call ended (res: "ok" for a
\* normal return, "skipped" for the warning-and-return, or the exception raised),
\* the destination computed, and the shutil.move and time.sleep calls in order.
MoveResult(f, d, res, dst, trace) ==
    [fs |-> f, dirs |-> d, res |-> res, dst |-> dst, trace |-> trace,
     attempts |-> CountEv(trace, "attempt"), sleeps |-> CountEv(trace, "sleep")]

\* FileMover.move_file(file_path, category, overwrite); category <<>> stands for
\* None and for "", which `category or self.categorize_file(...)` treats alike
FileMoverMove(f, d, c, file, src, category, overwrite, rmOk, script) ==
    IF SourceMissing(f, src)
    THEN MoveResult(f, d, "skipped", src, <<>>)
    ELSE
      LET cat == IF category # <<>> THEN category
                 ELSE CategorizeWith(src[2], LoadConfig(c, file).ret)
          d1  == Mkdir(d, cat)
          dst == Destination(src, cat)
      IN  IF Conflict(f, dst, overwrite)
          THEN MoveResult(f, d1, "FileExistsError", dst, <<>>)
          ELSE IF Exists(f, dst) /\ ~rmOk
          THEN MoveResult(f, d1, "RemoveError", dst, <<>>)
          ELSE
            LET f1 == IF Exists(f, dst) THEN RemoveEntry(f, dst) ELSE f
                m  == ShutilMove(f1, src, dst, Outcome(script, 1))
            IN  MoveResult(m.fs, d1, m.exc, dst, <<AttemptEv>>)

\* _config_cache after FileMover.move_file: categorize_file, and with it
\* load_config, runs only for an existing source file given no category
FileMoverMoveCache(f, c, file, src, category) ==
    IF IsFile(f, src) /\ category = <<>> THEN LoadConfig(c, file).cache ELSE c

----------------------------------------------------------------------------
(* The standalone move_file *)

DefaultMaxRetries == 3

\* except PermissionError: the lock errors, which alone are retried
IsLockErrorAny(exc) == exc # "ok"

IsLockError(exc) == exc = "PermissionError"

\* if attempt < max_retries: sleep and go round again, else re-raise
ShouldRetryOffByOne(attempt, maxRetries) == attempt < maxRetries - 1
ShouldRetryAlways(attempt, maxRetries) == attempt <= maxRetries

ShouldRetry(attempt, maxRetries) == attempt < maxRetries

\* for attempt in range(max_retries + 1): ...   (attempt counts from 0)
RECURSIVE RetryLoop(_, _, _, _, _, _, _, _)
RetryLoop(f, d, src, dst, maxRetries, script, attempt, trace) ==
    IF attempt > maxRetries
    THEN \* the loop ran out without a return or a raise: the function returns None
         MoveResult(f, d, "ok", dst, trace)
    ELSE
      LET m  == ShutilMove(f, src, dst, Outcome(script, attempt + 1))
          t1 == Append(trace, AttemptEv)
      IN  IF m.exc = "ok"
          THEN MoveResult(m.fs, d, "ok", dst, t1)
          ELSE IF IsLockError(m.exc) /\ ShouldRetry(attempt, maxRetries)
          THEN RetryLoop(f, d, src, dst, maxRetries, script, attempt + 1,
                         Append(t1, SleepEv))
          ELSE MoveResult(f, d, m.exc, dst, t1)

\* move_file(source, destination, overwrite, max_retries)
StandaloneMoveMkdirFirst(f, d, src, dst, overwrite, maxRetries, rmOk, script) ==
    IF SourceMissing(f, src)
    THEN MoveResult(f, Mkdir(d, dst[1]), "FileNotFoundError", dst, <<>>)
    ELSE
      LET d1 == Mkdir(d, dst[1])
      IN  IF Conflict(f, dst, overwrite)
          THEN MoveResult(f, d1, "FileExistsError", dst, <<>>)
          ELSE IF Exists(f, dst) /\ ~rmOk
          THEN MoveResult(f, d1, "RemoveError", dst, <<>>)
          ELSE
            LET f1 == IF Exists(f, dst) THEN RemoveEntry(f, dst) ELSE f
            IN  RetryLoop(f1, d1, src, dst, maxRetries, script, 0, <<>>)

StandaloneMove(f, d, src, dst, overwrite, maxRetries, rmOk, script) ==
    IF SourceMissing(f, src)
    THEN MoveResult(f, d, "FileNotFoundError", dst, <<>>)
    ELSE
      LET d1 == Mkdir(d, dst[1])
      IN  IF Conflict(f, dst, overwrite)
          THEN MoveResult(f, d1, "FileExistsError", dst, <<>>)
          ELSE IF Exists(f, dst) /\ ~rmOk
          THEN MoveResult(f, d1, "RemoveError", dst, <<>>)
          ELSE
            LET f1 == IF Exists(f, dst) THEN RemoveEntry(f, dst) ELSE f
            IN  RetryLoop(f1, d1, src, dst, maxRetries, script, 0, <<>>)

----------------------------------------------------------------------------
(* FileMover.scan_directory and FileMover.organize *)

\* The regular files under the root, all of them: rglob("*") filtered by is_file()
ScanSet(f, d) == IF Root \in d THEN {p \in TreePaths : IsFile(f, p)} ELSE {}

\* rglob yields them in an order the program does not control
Orders(S) ==
    {q \in [1..Cardinality(S) -> S] : \A i, j \in 1..Cardinality(S) : q[i] = q[j] => i = j}

\* The exceptions a move raises all derive from Exception, which organize catches
ExceptionNames == {"FileExistsError", "FileNotFoundError", "PermissionError",
                   "OSError", "RemoveError"}
CaughtOnlyFileExists(exc) == exc = "FileExistsError"

Caught(exc) == exc \in ExceptionNames

\* One iteration of organize's loop on file_path: the tree and the cache
\* afterwards and the line logged for the file.  kind is "would_move" or
\* "would_skip" (dry run), "moved", "warning" (move_file's skip of a missing
\* source) or "error" (the except branch: logged at ERROR with the exception).
LogLine(path, cat, kind, exc, dst, script) ==
    [path |-> path, category |-> cat, kind |-> kind, exc |-> exc, dst |-> dst,
     script |-> script]

\* what one iteration yields from the values it computed
DryOutcomeCreatesDir(f, d, c, path, cat, dst, overwrite, script) ==
    [fs |-> f, dirs |-> Mkdir(d, cat), cache |-> c, res |-> "dry", attempts |-> 0,
     line |-> LogLine(path, cat,
                 IF Exists(f, dst) /\ ~overwrite THEN "would_skip" ELSE "would_move",
                 "none", dst, script)]

DryOutcome(f, d, c, path, cat, dst, overwrite, script) ==
    [fs |-> f, dirs |-> d, cache |-> c, res |-> "dry", attempts |-> 0,
     line |-> LogLine(path, cat,
                 IF Exists(f, dst) /\ ~overwrite THEN "would_skip" ELSE "would_move",
                 "none", dst, script)]

RealOutcome(mv, c, path, cat, script) ==
    [fs |-> mv.fs, dirs |-> mv.dirs, cache |-> c, res |-> mv.res,
     attempts |-> mv.attempts,
     line |-> LogLine(path, cat,
                 IF mv.res = "ok" THEN "moved"
                 ELSE IF mv.res = "skipped" THEN "warning" ELSE "error",
                 IF mv.res \in {"ok", "skipped"} THEN "none" ELSE mv.res,
                 mv.dst, script)]

OrganizeOneDryRunMoves(f, d, c, file, path, dry, overwrite, rmOk, script) ==
    CHOOSE o \in
      { RealOutcome(FileMoverMove(f, d, ld.cache, file, path, cat, overwrite, rmOk, script),
                    FileMoverMoveCache(f, ld.cache, file, path, cat), path, cat, script) :
          <<ld, cat>> \in { <<l, CategorizeWith(path[2], l.ret)>> :
                              l \in {LoadConfig(c, file)} } } : TRUE

OrganizeOne(f, d, c, file, path, dry, overwrite, rmOk, script) ==
    CHOOSE o \in
      { IF dry
        THEN DryOutcome(f, d, ld.cache, path, cat, Destination(path, cat), overwrite, script)
        ELSE RealOutcome(
                 FileMoverMove(f, d, ld.cache, file, path, cat, overwrite, rmOk, script),
                 FileMoverMoveCache(f, ld.cache, file, path, cat), path, cat, script) :
          <<ld, cat>> \in { <<l, CategorizeWith(path[2], l.ret)>> :
                              l \in {LoadConfig(c, file)} } } : TRUE

----------------------------------------------------------------------------
(* State *)

\* What is remembered of the run before the current one: its log and the tree it
\* started from
NoPrev == [log |-> <<>>, fsBefore |-> [p \in Paths |-> Absent], dirsBefore |-> {}]

NoRun  == [phase |-> "idle", dry |-> FALSE, overwrite |-> FALSE, files |-> <<>>, i |-> 1,
           fsBefore |-> [p \in Paths |-> Absent], dirsBefore |-> {},
           summaries |-> 0, raised |-> "none", round |-> 1, prev |-> NoPrev]

NoCall == [fn |-> "none", src |-> NoData, dst |-> NoData, category |-> <<>>,
           overwrite |-> FALSE, maxRetries |-> 0, rmOk |-> TRUE, script |-> NoFault,
           res |-> "none", trace |-> <<>>, attempts |-> 0, sleeps |-> 0,
           cat |-> <<>>,
           fsBefore |-> [p \in Paths |-> Absent], dirsBefore |-> {}]

\* set: the rule set last returned; cleared: no load_config since the clear;
\* loaded, first: load_config has been called and what its first call returned;
\* afterClear: clear_config_cache has been called at some time
NoPin  == [set |-> None, cleared |-> FALSE, loaded |-> FALSE, first |-> None,
           afterClear |-> FALSE]

NoLoad == [called |-> FALSE, ret |-> None, read |-> FALSE, raised |-> "none",
           pinBefore |-> NoPin, file |-> CfgAbsent]

\* A directory in place of a file: the one spot where the initial tree may hold one
DirSpot == <<Documents, ReportPdf>>

\* Configurations tried with the tree: their categories name directories of DirNames
TreeCfgs == {CfgAbsent, CfgMixed}

InitTree(files, dirAt) ==
    /\ fs = [p \in Paths |-> IF p \in files THEN FileOf(p)
                             ELSE IF dirAt /\ p = DirSpot THEN DirEntry ELSE Absent]
    /\ dirs = {Root} \cup {p[1] : p \in files} \cup (IF dirAt THEN {DirSpot[1]} ELSE {})

InitFor(cfgs) ==
    /\ \/ \E files \in SUBSET TreePaths : \E dirAt \in BOOLEAN :
            /\ Cardinality(files) <= MaxFiles
            /\ dirAt => DirSpot \notin files
            /\ InitTree(files, dirAt)
       \/ \* the source root does not exist
          /\ fs = [p \in Paths |-> Absent]
          /\ dirs = {}
    /\ cfgFile \in cfgs
    /\ cache = None
    /\ pinned = NoPin
    /\ lastLoad = NoLoad
    /\ run = NoRun
    /\ runLog = <<>>
    /\ last = NoCall

Init == InitFor(TreeCfgs)

\* No API call has been made yet
Fresh == run.phase = "idle" /\ last.fn = "none"

----------------------------------------------------------------------------
(* Actions: the source tree *)

\* The scripts a single attempt can tell apart: it succeeds, it meets a lock that
\* would clear by the next attempt, or it meets another error
OneShotScripts == {s \in Scripts : s.locks <= 1 /\ s.then = "ok"}
                      \cup {[locks |-> 0, then |-> "other"]}

\* The smaller environment of the runs followed to their end or run twice: a move
\* succeeds or meets a lock
LockOrOkScripts == {NoFault, [locks |-> 1, then |-> "ok"]}

\* The paths the standalone move_file is called on
MovePaths == {p \in Paths : p[2] = ReportPdf /\ p[1] \in {Root, Sub, Documents}}

\* mover.move_file(src, category, overwrite) called directly
FileMoverMoveFileCall(src, category, overwrite, rmOk, script) ==
    /\ Fresh
    /\ \E r \in {FileMoverMove(fs, dirs, cache, cfgFile, src, category, overwrite,
                                rmOk, script)} :
           \* the environment is asked only about what the call reaches
           /\ rmOk \/ r.res = "RemoveError"
           /\ script = NoFault \/ r.attempts > 0
           /\ fs' = r.fs
           /\ dirs' = r.dirs
           /\ cache' = FileMoverMoveCache(fs, cache, cfgFile, src, category)
           /\ last' = [fn |-> "FileMover.move_file", src |-> src, dst |-> r.dst,
                       category |-> category, overwrite |-> overwrite,
                       maxRetries |-> 0, rmOk |-> rmOk, script |-> script,
                       res |-> r.res, trace |-> r.trace, attempts |-> r.attempts,
                       sleeps |-> r.sleeps, cat |-> <<>>,
                       fsBefore |-> fs, dirsBefore |-> dirs]
    /\ UNCHANGED <<cfgFile, pinned, lastLoad, run, runLog>>

\* move_file(src, dst, overwrite, max_retries) called directly
MoveFileCall(src, dst, overwrite, maxRetries, rmOk, script) ==
    /\ Fresh
    /\ \E r \in {StandaloneMove(fs, dirs, src, dst, overwrite, maxRetries, rmOk,
                                 script)} :
           /\ rmOk \/ r.res = "RemoveError"
           /\ script = NoFault \/ r.attempts > 0
           /\ maxRetries = DefaultMaxRetries
                \/ r.attempts > 0
                \/ (r.res = "ok" /\ r.attempts = 0)
           /\ fs' = r.fs
           /\ dirs' = r.dirs
           /\ last' = [fn |-> "move_file", src |-> src, dst |-> r.dst,
                       category |-> <<>>, overwrite |-> overwrite,
                       maxRetries |-> maxRetries, rmOk |-> rmOk, script |-> script,
                       res |-> r.res, trace |-> r.trace, attempts |-> r.attempts,
                       sleeps |-> r.sleeps, cat |-> <<>>,
                       fsBefore |-> fs, dirsBefore |-> dirs]
    /\ UNCHANGED <<cfgFile, cache, pinned, lastLoad, run, runLog>>

\* organize(dry_run, overwrite) up to its loop: the banner and the scan
OrganizeStart(dry, overwrite) ==
    /\ Fresh
    /\ \E files \in Orders(ScanSet(fs, dirs)) :
          run' = [phase |-> "loop", dry |-> dry, overwrite |-> overwrite,
                  files |-> files, i |-> 1, fsBefore |-> fs, dirsBefore |-> dirs,
                  summaries |-> 0, raised |-> "none", round |-> 1, prev |-> NoPrev]
    /\ runLog' = <<>>
    /\ UNCHANGED <<fs, dirs, cfgFile, cache, pinned, lastLoad, last>>

\* one iteration of `for file_path in files`, its try and its except
OrganizeFileRescans(rmOk, script) ==
    /\ run.phase = "loop"
    /\ run.i <= Len(run.files)
    /\ \E o \in {OrganizeOne(fs, dirs, cache, cfgFile, run.files[run.i], run.dry,
                             run.overwrite, rmOk, script)} :
           /\ rmOk \/ o.res = "RemoveError"
           /\ script = NoFault \/ o.attempts > 0
           /\ fs' = o.fs
           /\ dirs' = o.dirs
           /\ cache' = o.cache
           /\ runLog' = Append(runLog, o.line)
           /\ run' = [run EXCEPT
                        !.i = run.i + 1,
                        !.files = IF o.line.kind = "moved"
                                     /\ \A k \in 1..Len(run.files) :
                                           run.files[k] # o.line.dst
                                  THEN Append(run.files, o.line.dst)
                                  ELSE run.files]
    /\ UNCHANGED <<cfgFile, pinned, lastLoad, last>>

OrganizeFile(rmOk, script) ==
    /\ run.phase = "loop"
    /\ run.i <= Len(run.files)
    /\ \E o \in {OrganizeOne(fs, dirs, cache, cfgFile, run.files[run.i], run.dry,
                             run.overwrite, rmOk, script)} :
           \* the environment is asked only about what the iteration reaches
           /\ rmOk \/ o.res = "RemoveError"
           /\ script = NoFault \/ o.attempts > 0
           /\ fs' = o.fs
           /\ dirs' = o.dirs
           /\ cache' = o.cache
           /\ IF o.line.exc = "none" \/ Caught(o.line.exc)
              THEN /\ runLog' = Append(runLog, o.line)
                   /\ run' = [run EXCEPT !.i = run.i + 1]
              ELSE \* the exception leaves organize
                   /\ runLog' = runLog
                   /\ run' = [run EXCEPT !.phase = "raised", !.raised = o.line.exc]
    /\ UNCHANGED <<cfgFile, pinned, lastLoad, last>>

\* after the loop: the summary line, and organize returns
OrganizeFinishOnlyAfterSuccess ==
    /\ run.phase = "loop"
    /\ run.i > Len(run.files)
    /\ \A j \in 1..Len(runLog) : runLog[j].kind # "error"
    /\ run' = [run EXCEPT !.phase = "done", !.summaries = run.summaries + 1]
    /\ UNCHANGED <<fs, dirs, cfgFile, cache, pinned, lastLoad, runLog, last>>

OrganizeFinish ==
    /\ run.phase = "loop"
    /\ run.i > Len(run.files)
    /\ run' = [run EXCEPT !.phase = "done", !.summaries = run.summaries + 1]
    /\ UNCHANGED <<fs, dirs, cfgFile, cache, pinned, lastLoad, runLog, last>>

Next ==
    \/ \E src \in TreePaths, category \in {<<>>, Documents, Sub}, overwrite \in BOOLEAN,
          rmOk \in BOOLEAN, script \in OneShotScripts :
          FileMoverMoveFileCall(src, category, overwrite, rmOk, script)
    \/ \E src \in MovePaths, dst \in MovePaths, overwrite \in BOOLEAN,
          maxRetries \in (-1)..MaxRetriesArg, rmOk \in BOOLEAN, script \in Scripts :
          MoveFileCall(src, dst, overwrite, maxRetries, rmOk, script)
    \/ \E dry \in BOOLEAN, overwrite \in BOOLEAN : OrganizeStart(dry, overwrite)
    \/ \E rmOk \in BOOLEAN, script \in OneShotScripts : OrganizeFile(rmOk, script)
    \/ OrganizeFinish

Spec == Init /\ [][Next]_vars

----------------------------------------------------------------------------
(* Actions: one organize() call run to its end *)

NextOrganize ==
    \/ \E dry \in BOOLEAN, overwrite \in BOOLEAN : OrganizeStart(dry, overwrite)
    \/ \E rmOk \in BOOLEAN, script \in LockOrOkScripts : OrganizeFile(rmOk, script)
    \/ OrganizeFinish

\* organize is sequential code: once called, each iteration of its loop and the
\* statements after the loop are executed
SpecOrganizeLive ==
    /\ Init
    /\ [][NextOrganize]_vars
    /\ WF_vars(\E rmOk \in BOOLEAN, script \in LockOrOkScripts : OrganizeFile(rmOk, script))
    /\ WF_vars(OrganizeFinish)

----------------------------------------------------------------------------
(* Actions: organize() under override files whose category names are not folder
   names *)

\* load_config keeps every key whose value has a string: the empty name and a
\* name with ".." among them
ContainCfgs == {CfgAbsent, CfgEmptyName, CfgEscape}

InitContain == InitFor(ContainCfgs)

SpecContain == InitContain /\ [][NextOrganize]_vars

----------------------------------------------------------------------------
(* Actions: organize() run twice in the same process *)

\* organize(dry_run, overwrite) called again, with the same arguments, right
\* after the first call returned: the banner and a new scan
OrganizeAgain ==
    /\ run.phase = "done"
    /\ run.round = 1
    /\ \E files \in Orders(ScanSet(fs, dirs)) :
          run' = [phase |-> "loop", dry |-> run.dry, overwrite |-> run.overwrite,
                  files |-> files, i |-> 1, fsBefore |-> fs, dirsBefore |-> dirs,
                  summaries |-> 0, raised |-> "none", round |-> 2,
                  prev |-> [log |-> runLog, fsBefore |-> run.fsBefore,
                            dirsBefore |-> run.dirsBefore]]
    /\ runLog' = <<>>
    /\ UNCHANGED <<fs, dirs, cfgFile, cache, pinned, lastLoad, last>>

NextTwice ==
    \/ \E dry \in BOOLEAN, overwrite \in BOOLEAN : OrganizeStart(dry, overwrite)
    \/ \E rmOk \in BOOLEAN, script \in LockOrOkScripts : OrganizeFile(rmOk, script)
    \/ OrganizeFinish
    \/ OrganizeAgain

SpecTwice == Init /\ [][NextTwice]_vars

----------------------------------------------------------------------------
(* Actions: the configuration cache on its own *)

InitConfig ==
    /\ InitTree({}, FALSE)
    /\ cfgFile \in CfgFiles
    /\ cache = None
    /\ pinned = NoPin
    /\ lastLoad = NoLoad
    /\ run = NoRun
    /\ runLog = <<>>
    /\ last = NoCall

\* another process, or the user, rewrites or deletes .fileorganizer.json
EnvWriteConfig(c) ==
    /\ c # cfgFile
    /\ cfgFile' = c
    /\ UNCHANGED <<fs, dirs, cache, pinned, lastLoad, run, runLog, last>>

\* load_config() called directly
LoadConfigCall ==
    /\ LET ld == LoadConfig(cache, cfgFile)
       IN  /\ cache' = ld.cache
           /\ lastLoad' = [called |-> TRUE, ret |-> ld.ret, read |-> ld.read,
                           raised |-> ld.raised,
                           pinBefore |-> pinned, file |-> cfgFile]
           /\ pinned' = [set |-> IF ld.ret.some THEN ld.ret ELSE pinned.set,
                         cleared |-> FALSE,
                         loaded |-> TRUE,
                         first |-> IF pinned.loaded THEN pinned.first ELSE ld.ret,
                         afterClear |-> pinned.afterClear]
    /\ UNCHANGED <<fs, dirs, cfgFile, run, runLog, last>>

\* clear_config_cache()
ClearConfigCacheCall ==
    /\ cache' = None
    /\ pinned' = [set |-> None, cleared |-> TRUE, loaded |-> FALSE, first |-> None,
                  afterClear |-> TRUE]
    /\ UNCHANGED <<fs, dirs, cfgFile, lastLoad, run, runLog, last>>

NextConfig ==
    \/ \E c \in CfgFiles : EnvWriteConfig(c)
    \/ LoadConfigCall
    \/ ClearConfigCacheCall

SpecConfig == InitConfig /\ [][NextConfig]_vars

----------------------------------------------------------------------------
(* Actions: categorize_file on its own *)

InitCategorize ==
    /\ InitTree({}, FALSE)
    /\ cfgFile \in CatCfgs
    /\ cache = None
    /\ pinned = NoPin
    /\ lastLoad = NoLoad
    /\ run = NoRun
    /\ runLog = <<>>
    /\ last = NoCall

\* mover.categorize_file(name) called directly: the file need not exist
CategorizeFileCall(name) ==
    /\ \E ld \in {LoadConfig(cache, cfgFile)} :
           /\ cache' = ld.cache
           /\ lastLoad' = [called |-> TRUE, ret |-> ld.ret, read |-> ld.read,
                           raised |-> ld.raised,
                           pinBefore |-> pinned, file |-> cfgFile]
           /\ pinned' = [set |-> IF ld.ret.some THEN ld.ret ELSE pinned.set,
                         cleared |-> FALSE,
                         loaded |-> TRUE,
                         first |-> IF pinned.loaded THEN pinned.first ELSE ld.ret,
                         afterClear |-> pinned.afterClear]
           /\ last' = [NoCall EXCEPT !.fn = "categorize_file",
                                     !.src = <<Root, name>>,
                                     !.res = ld.raised,
                                     !.cat = IF ld.raised = "none"
                                             THEN CategorizeWith(name, ld.ret)
                                             ELSE <<>>]
    /\ UNCHANGED <<fs, dirs, cfgFile, run, runLog>>

NextCategorize ==
    \/ \E name \in CatNames : CategorizeFileCall(name)
    \/ \E c \in CatCfgs : EnvWriteConfig(c)
    \/ ClearConfigCacheCall

SpecCategorize == InitCategorize /\ [][NextCategorize]_vars

----------------------------------------------------------------------------
(* Properties *)

\* The direct call recorded in `last` reached its shutil.move with the source in
\* place: the source was a regular file, source and destination differ, and the
\* destination was free or was removed for the overwrite
LoopEntered(c) ==
    /\ IsFile(c.fsBefore, c.src)
    /\ c.src # c.dst
    /\ ~Exists(c.fsBefore, c.dst) \/ (c.overwrite /\ c.rmOk)

\* attempt, sleep, attempt, ..., attempt
Alternates(trace) ==
    \A i \in 1..Len(trace) : trace[i] = IF i % 2 = 1 THEN AttemptEv ELSE SleepEv

\* No fault met the run: every move and removal the environment was asked for worked
RunFaultless ==
    \A j \in 1..Len(runLog) :
        runLog[j].script = NoFault /\ runLog[j].exc # "RemoveError"

\* C1 -- Overwrite law: whenever the source is an existing regular file, the
\* destination path exists and overwrite is true (and the environment raises no
\* fault), FileMover.move_file, called directly or for the first file of an
\* organize run, and the standalone move_file succeed, the source path is gone
\* afterwards and the destination holds the source's content of before the call.
C1_OverwriteLaw ==
    /\ (/\ last.fn # "none"
        /\ IsFile(last.fsBefore, last.src)
        /\ Exists(last.fsBefore, last.dst)
        /\ last.overwrite /\ last.rmOk /\ last.script = NoFault
        /\ last.maxRetries >= 0)
       => /\ last.res = "ok"
          /\ ~Exists(fs, last.src)
          /\ fs[last.dst] = last.fsBefore[last.src]
    /\ (/\ run.phase # "idle" /\ ~run.dry /\ run.overwrite
        /\ Len(runLog) = 1
        /\ Exists(run.fsBefore, runLog[1].dst)
        /\ RunFaultless)
       => /\ runLog[1].kind = "moved"
          /\ ~Exists(fs, runLog[1].path)
          /\ fs[runLog[1].dst] = run.fsBefore[runLog[1].path]

\* C2 -- Conflict law: when the source is a regular file, the destination path
\* exists and overwrite is false, FileMover.move_file and the standalone move_file
\* raise FileExistsError and change nothing: every path keeps its content and no
\* directory is created.
C2_ConflictLaw ==
    (/\ last.fn # "none"
     /\ IsFile(last.fsBefore, last.src)
     /\ Exists(last.fsBefore, last.dst)
     /\ ~last.overwrite)
    => /\ last.res = "FileExistsError"
       /\ fs = last.fsBefore
       /\ dirs = last.dirsBefore
       /\ last.attempts = 0

C2_Witness ==
    /\ last.fn = "FileMover.move_file"
    /\ last.src # last.dst
    /\ IsFile(last.fsBefore, last.src)
    /\ IsFile(last.fsBefore, last.dst)
    /\ ~last.overwrite
    /\ last.res = "FileExistsError"

\* C3 -- Scenario C: the root holds exactly a file F and a file at F's destination
\* D = <root>/<category(F)>/<name(F)>.  A finished organize(overwrite=false) has
\* left the tree unchanged and logged F's conflict; a finished
\* organize(overwrite=true) that met no fault has left D holding F's original
\* content and F's path empty, whatever the scan order.
C3_ScenarioC ==
    (run.phase = "done" /\ ~run.dry /\ RunFaultless) =>
      \A F, D \in Paths :
        (/\ F # D
         /\ ScanSet(run.fsBefore, run.dirsBefore) = {F, D}
         /\ \E j \in 1..Len(runLog) : runLog[j].path = F /\ runLog[j].dst = D)
        => IF ~run.overwrite
           THEN /\ fs = run.fsBefore
                /\ \E j \in 1..Len(runLog) :
                      /\ runLog[j].path = F
                      /\ runLog[j].kind = "error"
                      /\ runLog[j].exc = "FileExistsError"
           ELSE /\ IsFile(fs, D)
                /\ fs[D] = run.fsBefore[F]
                /\ ~Exists(fs, F)

C5_FailureIsolation ==
    (run.phase # "idle" /\ ~run.dry) =>
       /\ run.phase # "raised" /\ run.raised = "none"
       /\ Len(runLog) = run.i - 1
       /\ \A j \in 1..Len(runLog) :
             /\ runLog[j].path = run.files[j]
             /\ runLog[j].exc # "none" <=> runLog[j].kind = "error"
       /\ run.phase = "done" => Len(runLog) = Len(run.files)

C5_Witness ==
    /\ run.phase = "done" /\ ~run.dry
    /\ Len(runLog) >= 2
    /\ runLog[1].kind = "error" /\ runLog[1].exc = "PermissionError"
    /\ runLog[2].kind = "moved"

\* C6 -- Retry success: if the underlying move raises a lock error on its first k
\* attempts and then succeeds, k <= max_retries, the standalone move_file makes
\* exactly k+1 attempts and k waits of 0.5, one after each failed attempt, and
\* returns with the source gone and its content at the destination.
C6_RetrySuccess ==
    (/\ last.fn = "move_file"
     /\ LoopEntered(last)
     /\ last.script.then = "ok"
     /\ last.script.locks <= last.maxRetries)
    => /\ last.res = "ok"
       /\ last.attempts = last.script.locks + 1
       /\ last.sleeps = last.script.locks
       /\ Len(last.trace) = 2 * last.script.locks + 1
       /\ Alternates(last.trace)
       /\ ~Exists(fs, last.src)
       /\ fs[last.dst] = last.fsBefore[last.src]

C6_Witness ==
    /\ last.fn = "move_file"
    /\ LoopEntered(last)
    /\ last.script = [locks |-> 2, then |-> "ok"]
    /\ last.maxRetries = DefaultMaxRetries
    /\ last.res = "ok"
    /\ last.attempts = 3 /\ last.sleeps = 2

\* C7 -- Retry exhaustion: if every attempt raises a lock error, the standalone
\* move_file (max_retries >= 0) makes exactly max_retries+1 attempts and
\* max_retries waits of 0.5, then raises the lock error, the source still in place.
C7_RetryExhaustion ==
    (/\ last.fn = "move_file"
     /\ LoopEntered(last)
     /\ last.maxRetries >= 0
     /\ last.script.then = "lock" \/ last.script.locks > last.maxRetries)
    => /\ last.res = "PermissionError"
       /\ last.attempts = last.maxRetries + 1
       /\ last.sleeps = last.maxRetries
       /\ Len(last.trace) = 2 * last.maxRetries + 1
       /\ Alternates(last.trace)
       /\ fs[last.src] = last.fsBefore[last.src]

C7_Witness ==
    /\ last.fn = "move_file"
    /\ LoopEntered(last)
    /\ last.script.then = "lock"
    /\ last.maxRetries = DefaultMaxRetries
    /\ last.res = "PermissionError"
    /\ last.attempts = DefaultMaxRetries + 1

\* C8 -- A non-lock error of a move attempt is never retried: the standalone
\* move_file raises it at once, after exactly the attempts that met a lock plus
\* this one, with no wait after it, on the first attempt or after lock retries.
C8_NonLockNotRetried ==
    /\ (/\ last.fn = "move_file"
        /\ LoopEntered(last)
        /\ last.script.then = "other"
        /\ last.script.locks <= last.maxRetries)
       => /\ last.res = "OSError"
          /\ last.attempts = last.script.locks + 1
          /\ last.sleeps = last.script.locks
          /\ last.trace[Len(last.trace)] = AttemptEv
          /\ fs[last.src] = last.fsBefore[last.src]
    /\ (/\ last.fn = "move_file"
        /\ last.attempts > 0
        /\ last.res \in {"OSError", "FileNotFoundError"})
       => /\ last.trace[Len(last.trace)] = AttemptEv
          /\ last.attempts = last.sleeps + 1

C8_Witness ==
    /\ last.fn = "move_file"
    /\ last.script.then = "other"
    /\ last.script.locks >= 1
    /\ last.script.locks < last.maxRetries
    /\ last.res = "OSError"
    /\ last.attempts = last.script.locks + 1

\* C9 -- In a real organize run a move that meets a transient lock is retried, so
\* a file whose lock clears within the retry bound is moved during that run.
C9_OrganizeRetriesLock ==
    (run.phase # "idle" /\ ~run.dry) =>
      \A j \in 1..Len(runLog) :
        (/\ runLog[j].script.then = "ok"
         /\ runLog[j].script.locks >= 1
         /\ runLog[j].script.locks <= DefaultMaxRetries)
        => runLog[j].kind = "moved"

\* C10 -- Once load_config() has returned a rule set, every later load_config()
\* returns that rule set without touching the filesystem, whatever has become of
\* the configuration file, until clear_config_cache(); the first load_config()
\* after clear_config_cache() resolves the configuration from the file again.
C10_CachedUntilCleared ==
    lastLoad.called =>
       /\ lastLoad.pinBefore.set.some
            => (lastLoad.ret = lastLoad.pinBefore.set /\ ~lastLoad.read)
       /\ lastLoad.pinBefore.cleared
            => (lastLoad.read /\ lastLoad.ret = ResolveConfig(lastLoad.file))

C10_Witness ==
    /\ lastLoad.called
    /\ lastLoad.pinBefore.set.some
    /\ ~lastLoad.read
    /\ ResolveConfig(lastLoad.file) # lastLoad.ret

\* C11 -- Between two explicit invalidations the configuration is resolved from the
\* filesystem at most once: once load_config() has been called after a
\* clear_config_cache(), every later call before the next clear returns what that
\* first call returned, a rule set or None, without reading the filesystem,
\* whatever has become of the configuration file.
C11_ResolvedOncePerInvalidation ==
    (/\ lastLoad.called
     /\ lastLoad.pinBefore.afterClear
     /\ lastLoad.pinBefore.loaded)
    => /\ lastLoad.ret = lastLoad.pinBefore.first
       /\ ~lastLoad.read

\* The rule set the last categorize_file call got from load_config, as a sequence
\* (empty when load_config returned None), and the lowercased extension of its file
CatRules == IF lastLoad.ret.some THEN lastLoad.ret.v ELSE <<>>
CatExt   == Lower(Suffix(last.src[2]))
BuiltinExts ==
    ImageExts \cup DocumentExts \cup VideoExts \cup MusicExts \cup ArchiveExts \cup CodeExts

\* C12 -- Layered lookup: categorize_file returns the lowercased name of the first
\* override category, in the rule set's order, whose extension list contains the
\* file's lowercased extension; if none does (or there is no rule set) the
\* built-in table's category of that extension, and "others" if the extension is
\* in neither.  An override wins over the built-in table, and the result is the
\* same for every letter case of the file's extension.
C12_LayeredLookup ==
    last.fn = "categorize_file" =>
      LET hit(i) == InList(CatExt, CatRules[i].extensions)
      IN  /\ \A i \in 1..Len(CatRules) :
                (hit(i) /\ \A j \in 1..(i-1) : ~hit(j))
                   => last.cat = Lower(CatRules[i].category)
          /\ (\A i \in 1..Len(CatRules) : ~hit(i)) =>
                /\ CatExt \in BuiltinExts => last.cat = BuiltinCategory(CatExt)
                /\ CatExt \notin BuiltinExts => last.cat = Others
          /\ \A n \in CatNames :
                Lower(Suffix(n)) = CatExt => CategorizeWith(n, lastLoad.ret) = last.cat

C12_Witness ==
    /\ last.fn = "categorize_file"
    /\ last.src[2] = PhotoJPG
    /\ Len(CatRules) = 2
    /\ InList(CatExt, CatRules[1].extensions) /\ InList(CatExt, CatRules[2].extensions)
    /\ last.cat = Lower(CatRules[1].category)
    /\ last.cat # Lower(CatRules[2].category)
    /\ BuiltinCategory(CatExt) = Images

\* C13 -- Matching against override rules ignores letter case on both sides: a
\* rule authored with any letter case matches every file whose extension equals
\* it ignoring case, and categorize_file returns the category of the first such
\* rule.
C13_RuleCaseInsensitive ==
    last.fn = "categorize_file" =>
      LET hit(i) == \E k \in 1..Len(CatRules[i].extensions) :
                        Lower(CatRules[i].extensions[k]) = CatExt
      IN  \A i \in 1..Len(CatRules) :
             (hit(i) /\ \A j \in 1..(i-1) : ~hit(j))
                => last.cat = Lower(CatRules[i].category)

\* C14 -- categorize_file always returns a non-empty, all-lowercase category, for
\* every file name and every rule set load_config's validation accepts.
C14_CategoryNonEmptyLower ==
    last.fn = "categorize_file" => (last.cat # <<>> /\ Lower(last.cat) = last.cat)

C16_MissingSourceRaises ==
    (last.fn = "move_file" /\ ~IsFile(last.fsBefore, last.src))
    => /\ last.res = "FileNotFoundError"
       /\ fs = last.fsBefore
       /\ dirs = last.dirsBefore
       /\ last.attempts = 0

C16_Witness ==
    /\ last.fn = "move_file"
    /\ ~Exists(last.fsBefore, last.src)
    /\ last.dst[1] \notin last.dirsBefore
    /\ last.overwrite
    /\ last.res = "FileNotFoundError"

\* The category organize gives a file of the tree: the configuration file does not
\* change while the tree is organized
CategoryOf(p) == CategorizeWith(p[2], ResolveConfig(cfgFile))

\* The files the run scanned
Scanned == ScanSet(run.fsBefore, run.dirsBefore)

Nested(cat, sub) == cat \o <<"/">> \o sub

\* C19 -- A real organize() moves a file found at <root>/<subpath>/<name> to
\* <root>/<category>/<subpath>/<name>, keeping its relative directory structure
\* under the category folder, and removes the emptied source subdirectory.
C19_NestedStructureKept ==
    (run.phase = "done" /\ ~run.dry /\ RunFaultless) =>
      \A j \in 1..Len(runLog) :
        (runLog[j].kind = "moved" /\ runLog[j].path[1] = Sub) =>
           /\ runLog[j].dst = <<Nested(runLog[j].category, Sub), runLog[j].path[2]>>
           /\ (\A p \in Paths : p[1] = Sub => ~Exists(fs, p)) => Sub \notin dirs

\* A category of the file survives validation: its value is a list with a string
Survives(it) == it.value.list /\ \E k \in 1..Len(it.value.elems) : it.value.elems[k].str

\* The position in a list of its k-th string entry
KthString(elems, k) ==
    CHOOSE m \in 1..Len(elems) :
        elems[m].str /\ Cardinality({n \in 1..m : elems[n].str}) = k

\* C20 -- The validation result of load_config() when it resolves the file: for a
\* JSON object, exactly the categories whose value is a list with at least one
\* string, each with its string entries and the non-strings removed; categories
\* whose value is not a list or holds no string are absent; if the root is not an
\* object or no category survives, None is returned and nothing is cached.
C20_ValidationResult ==
    (lastLoad.called /\ lastLoad.read) =>
      LET items == lastLoad.file.items
          isObj == lastLoad.file.kind = "object"
          kept  == {i \in 1..Len(items) : Survives(items[i])}
          r     == lastLoad.ret
      IN  /\ r.some <=> (isObj /\ kept # {})
          /\ r.some =>
                /\ Len(r.v) = Cardinality(kept)
                /\ \A i \in kept : \E j \in 1..Len(r.v) :
                      /\ r.v[j].category = items[i].key
                      /\ Len(r.v[j].extensions) =
                            Cardinality({n \in 1..Len(items[i].value.elems) :
                                            items[i].value.elems[n].str})
                      /\ \A k \in 1..Len(r.v[j].extensions) :
                            r.v[j].extensions[k] =
                               items[i].value.elems[KthString(items[i].value.elems, k)].s
          /\ (~r.some /\ ~pinned.cleared) => ~cache.some

C20_Witness ==
    /\ lastLoad.called /\ lastLoad.read
    /\ lastLoad.file = CfgHoles
    /\ lastLoad.ret.some
    /\ Len(lastLoad.ret.v) = 1
    /\ lastLoad.ret.v[1].extensions = <<ExtPdf, ExtJPGUpper>>

LinesOf(log, p) == {log[k] : k \in {n \in 1..Len(log) : log[n].path = p}}

\* C22 -- Dry-run idempotence: organize(dry_run=true) run twice in succession with
\* the same overwrite flag leaves the tree as it was before the first run, after
\* each run, and the second run logs for every file the category and the
\* would-move / would-skip decision the first run logged for it.
C22_DryRunIdempotent ==
    (run.round = 2 /\ run.dry) =>
       /\ run.fsBefore = run.prev.fsBefore /\ run.dirsBefore = run.prev.dirsBefore
       /\ fs = run.prev.fsBefore /\ dirs = run.prev.dirsBefore
       /\ \A j \in 1..Len(runLog) :
             LinesOf(run.prev.log, runLog[j].path) = {runLog[j]}
       /\ run.phase = "done" => Len(runLog) = Len(run.prev.log)

C22_Witness ==
    /\ run.round = 2 /\ run.dry /\ run.phase = "done"
    /\ Len(runLog) = 2
    /\ runLog[1].kind = "would_skip" /\ runLog[2].kind = "would_move"
    /\ run.prev.log[1].kind = "would_move"

\* The order of a run's phases: not started; scanned and in the per-file loop;
\* done.  No other phase and no step backwards.
PhaseOrder ==
    /\ run.phase = "idle" => run'.phase \in {"idle", "loop"}
    /\ run.phase = "loop" => run'.phase \in {"loop", "done"}
    /\ run.phase = "done" => run'.phase = "done"
    /\ run.phase = "loop" /\ run'.phase = "done" => run.i > Len(run.files)

\* C23 -- For every tree (an empty or missing root included) and every dry_run and
\* overwrite, organize() goes from its start through the scan and the per-file
\* loop to its end, in that order: it terminates, no exception leaves it, and the
\* summary is logged exactly once, after the last file, even when every move
\* fails.
C23_OrganizeTerminates ==
    /\ [][PhaseOrder]_vars
    /\ [](/\ run.phase \in {"idle", "loop", "done"}
          /\ run.raised = "none"
          /\ run.summaries = IF run.phase = "done" THEN 1 ELSE 0
          /\ run.phase = "done" => Len(runLog) = Len(run.files))
    /\ (run.phase = "loop") ~> (run.phase = "done")

C23_Witness ==
    /\ run.phase = "done" /\ ~run.dry
    /\ run.summaries = 1
    /\ Len(run.files) = 2
    /\ \A j \in 1..Len(runLog) : runLog[j].kind = "error"

\* C24 -- organize() works on a snapshot: the list it iterates is the regular
\* files under the root at the time of the scan, each exactly once; the files are
\* processed one by one in list order; and a file that comes to exist after the
\* scan, such as one this run has moved into a category folder, is not in the
\* list and is not processed in this run.
C24_Snapshot ==
    run.phase # "idle" =>
       /\ \A j \in 1..Len(run.files) :
             /\ IsFile(run.fsBefore, run.files[j])
             /\ \A k \in 1..Len(run.files) : run.files[k] = run.files[j] => k = j
       /\ \A p \in Paths :
             (Root \in run.dirsBefore /\ IsFile(run.fsBefore, p))
                => \E j \in 1..Len(run.files) : run.files[j] = p
       /\ Len(runLog) = run.i - 1
       /\ \A j \in 1..Len(runLog) : runLog[j].path = run.files[j]
       /\ \A p \in Paths :
             (IsFile(fs, p) /\ ~IsFile(run.fsBefore, p))
                => \A j \in 1..Len(runLog) : runLog[j].path # p

C24_Witness ==
    /\ run.phase = "done" /\ ~run.dry
    /\ Len(run.files) = 1 /\ Len(runLog) = 1
    /\ runLog[1].kind = "moved"
    /\ IsFile(fs, runLog[1].dst)
    /\ ~Exists(run.fsBefore, runLog[1].dst)

\* No fault met the moves and removals a log records
LogFaultless(log) ==
    \A j \in 1..Len(log) : log[j].script = NoFault /\ log[j].exc # "RemoveError"

\* C25 -- Real-run organize is idempotent on the tree: a second
\* organize(dry_run=false, overwrite=o) right after a first one with the same o,
\* neither meeting a fault, leaves every path holding what the first run left
\* there, for o=false and for o=true.
C25_RealRunIdempotent ==
    (/\ run.round = 2 /\ ~run.dry
     /\ LogFaultless(run.prev.log) /\ LogFaultless(runLog))
    => fs = run.fsBefore

\* C26 -- With overwrite=false a real organize() run never destroys data, whatever
\* the environment does: every file of the tree before the run is still there
\* with its content, at its original path or at <root>/<category>/<base name>;
\* when scanned files share a destination the first in scan order is moved and
\* the later ones are refused and stay in place.
C26_NoDataLoss ==
    (run.phase # "idle" /\ ~run.dry /\ ~run.overwrite) =>
       /\ \A p \in Paths :
             IsFile(run.fsBefore, p) =>
                \/ fs[p] = run.fsBefore[p]
                \/ fs[<<CategoryOf(p), p[2]>>] = run.fsBefore[p]
       /\ \A k \in 1..Len(runLog) :
             (\E j \in 1..(k-1) :
                 runLog[j].kind = "moved" /\ runLog[j].dst = runLog[k].dst)
             => /\ runLog[k].kind = "error"
                /\ runLog[k].exc = "FileExistsError"
                /\ fs[runLog[k].path] = run.fsBefore[runLog[k].path]

C26_Witness ==
    /\ run.phase = "done" /\ ~run.dry /\ ~run.overwrite
    /\ Len(runLog) = 2
    /\ runLog[1].path[1] = Sub /\ runLog[2].path[1] = Root
    /\ runLog[1].dst = runLog[2].dst
    /\ runLog[1].kind = "moved"
    /\ runLog[2].exc = "FileExistsError"
    /\ IsFile(fs, runLog[2].path)

\* C27 -- Whenever the standalone move_file returns normally the file has been
\* moved: at least one move attempt was made, the source path is gone and the
\* destination holds the source's prior content, for every max_retries, zero and
\* negative values included.
C27_ReturnMeansMoved ==
    (last.fn = "move_file" /\ last.res = "ok")
    => /\ last.attempts >= 1
       /\ ~Exists(fs, last.src)
       /\ fs[last.dst] = last.fsBefore[last.src]

\* C28 -- Replacement is all-or-nothing: when overwrite is true and a destination
\* other than the source exists, a FileMover.move_file or standalone move_file
\* call whose move fails leaves the destination with its old content; the old
\* content is gone only when the source's content has taken its place.
C28_AllOrNothing ==
    (/\ last.fn \in {"move_file", "FileMover.move_file"}
     /\ IsFile(last.fsBefore, last.src)
     /\ Exists(last.fsBefore, last.dst)
     /\ last.src # last.dst
     /\ last.overwrite)
    => /\ last.res # "ok" => fs[last.dst] = last.fsBefore[last.dst]
       /\ fs[last.dst] \in {last.fsBefore[last.dst], last.fsBefore[last.src]}

\* The line organize(dry_run=true) logs for a file of the tree the current run
\* started from, with the run's overwrite flag: a dry run changes nothing, so
\* each of its decisions is taken on that tree
DryLine(p) ==
    DryOutcome(run.fsBefore, run.dirsBefore, cache, p, CategoryOf(p),
               Destination(p, CategoryOf(p)), run.overwrite, NoFault).line

\* C29 -- Dry-run predictions match real outcomes: from the same tree and with the
\* same overwrite flag, and with no fault from the environment, a file is
\* reported "would move" by the dry run exactly when the real run relocates it to
\* the reported destination with its content, and "would skip" exactly when the
\* real run leaves it at its original path.
C29_DryRunPredicts ==
    (run.phase = "done" /\ ~run.dry /\ RunFaultless) =>
      \A j \in 1..Len(runLog) :
        LET p == runLog[j].path
        IN  /\ DryLine(p).kind = "would_move"
                <=> /\ runLog[j].kind = "moved"
                    /\ runLog[j].dst = DryLine(p).dst
                    /\ fs[DryLine(p).dst] = run.fsBefore[p]
            /\ DryLine(p).kind = "would_skip" <=> fs[p] = run.fsBefore[p]

\* A category that names one folder directly under the root: one path component,
\* not empty and not a step up or a step in place
SingleComponent(c) ==
    /\ c # <<>>
    /\ c \notin {<<".">>, <<".", ".">>}
    /\ \A i \in 1..Len(c) : c[i] # "/"

\* C30 -- Containment: every path a real organize() run creates or writes, the
\* category directories and the moved files, lies inside the source root, at
\* <root>/<category>/<base name> with <category> a single non-empty path
\* component different from the file's own location, for every override rule set
\* that load_config accepts.
C30_Containment ==
    (run.phase # "idle" /\ ~run.dry) =>
       /\ \A d \in dirs \ run.dirsBefore : SingleComponent(d)
       /\ \A p \in Paths :
             (Exists(fs, p) /\ fs[p] # run.fsBefore[p]) =>
                /\ SingleComponent(p[1])
                /\ \E j \in 1..Len(runLog) :
                      /\ runLog[j].kind = "moved"
                      /\ runLog[j].dst = p
                      /\ p = <<runLog[j].category, runLog[j].path[2]>>
                      /\ runLog[j].category # runLog[j].path[1]

====
